---- MODULE Spec2Model ----
(***************************************************************************)
(* A model of hscontrol/db/node.go: the node registry of the control       *)
(* plane.  The state is the node table, the route table and the pending    *)
(* registration cache; every exported operation of node.go that mutates    *)
(* them is one action.                                                      *)
(***************************************************************************)
EXTENDS Integers, Sequences, FiniteSets, TLC

(* ------------------------------ bounds -------------------------------- *)

\* Highest identifier the node table's auto-increment key hands out.
MaxID == 3
\* The same, in the identity specification (whose cache multiplies the states).
MaxIdentityID == 2
\* Number of addresses in each configured prefix.
PoolSize == 2
\* The wall clock runs over 0..MaxTime.
MaxTime == 3
\* Longest batch of route strings given to enableRoutes.
MaxBatch == 2

Users == {1, 2}                 \* identifiers of the users of the directory
UserNames == {"alice", "bob", "nobody"}
MachineKeys == {"mk1", "mk2"}
Times == 0 .. MaxTime

\* A nil *time.Time is the empty sequence, a set one is <<t>>.
Nil == <<>>

\* time.Unix(0, 0): the cursor ExpireExpiredNodes returns when the listing
\* fails, and the cursor the scheduler starts with.
Epoch == 0

(* ------------------------------ state --------------------------------- *)

VARIABLES
    nodes,      \* the node table: ID -> Node row
    routes,     \* the route table: a set of Route rows
    cache,      \* the registration cache: machine key string -> entry
    nextID,     \* the node table's auto-increment counter
    now,        \* the wall clock (time.Now())
    last,       \* the last operation, its arguments and what it returned
    sweeper,    \* the expiry scheduler: its lastCheck cursor, the nodes its
                \* passes reported, whether no pass had a storage failure
    txs         \* the calls in flight: caller -> position and locals

vars == <<nodes, routes, cache, nextID, now, last, sweeper, txs>>

(* ------------------------- external collaborators --------------------- *)

\* GetUser: resolves a user by name; "nobody" is not in the directory.
GetUser(userName) ==
    CASE userName = "alice" -> [err |-> "", ID |-> 1]
      [] userName = "bob"   -> [err |-> "", ID |-> 2]
      [] OTHER              -> [err |-> "ErrUserNotFound", ID |-> 0]

\* ListUsers: the users in identifier order.
ListUsers == <<1, 2>>

\* The configured prefixes (hsdb.ipPrefixes): prefix i holds the addresses
\* 10*i + 1 .. 10*i + PoolSize.
IpPrefixes == <<1, 2>>
PrefixAddrs(p) == {10 * p + k : k \in 1 .. PoolSize}

Min(S) == CHOOSE x \in S : \A y \in S : x <= y

SeqToSet(s) == {s[i] : i \in 1 .. Len(s)}

\* The addresses held by the persisted nodes of table tbl.
UsedIPs(tbl) == UNION {SeqToSet(tbl[id].IPAddresses) : id \in DOMAIN tbl}

\* getAvailableIPs: for each configured prefix the lowest address no
\* persisted node holds; an error when some prefix has none.
getAvailableIPs(tbl, ipPrefixes) ==
    LET free(p) == PrefixAddrs(p) \ UsedIPs(tbl)
    IN  IF \E i \in 1 .. Len(ipPrefixes) : free(ipPrefixes[i]) = {}
        THEN [err |-> "ErrCouldNotAllocateIP", ips |-> <<>>]
        ELSE [err |-> "",
              ips |-> [i \in 1 .. Len(ipPrefixes) |-> Min(free(ipPrefixes[i]))]]

(* ------------------------------ storage ------------------------------- *)

\* tx.Save(&node): a row with a zero primary key is inserted under the next
\* auto-increment key; a row with a primary key is updated, and inserted
\* when no row has that key (gorm's Save is an upsert).
Save(tbl, nid, node) ==
    LET id  == IF node.ID = 0 THEN nid ELSE node.ID
        row == [node EXCEPT !.ID = id]
    IN  [nodes  |-> [i \in DOMAIN tbl \cup {id} |-> IF i = id THEN row ELSE tbl[i]],
         nextID |-> IF node.ID = 0 THEN nid + 1 ELSE nid,
         node   |-> row]

\* RegisterNode without its re-registration branch: every call allocates.
RegisterNodeAlwaysAllocates(tbl, nid, node, ipPrefixes, saveOK) ==
    LET got == getAvailableIPs(tbl, ipPrefixes)
    IN  IF got.err # "" \/ ~saveOK
        THEN [err |-> IF got.err # "" THEN got.err ELSE "ErrSave",
              nodes |-> tbl, nextID |-> nid, node |-> node]
        ELSE [err |-> ""] @@ Save(tbl, nid, [node EXCEPT !.IPAddresses = got.ips])

\* RegisterNode that persists the node, without addresses, when
\* getAvailableIPs returns an error.
RegisterNodePersistsOnAllocError(tbl, nid, node, ipPrefixes, saveOK) ==
    LET got == getAvailableIPs(tbl, ipPrefixes)
        ips == IF Len(node.IPAddresses) > 0 THEN node.IPAddresses ELSE got.ips
    IN  IF ~saveOK
        THEN [err |-> "ErrSave", nodes |-> tbl, nextID |-> nid, node |-> node]
        ELSE [err |-> ""] @@ Save(tbl, nid, [node EXCEPT !.IPAddresses = ips])

\* RegisterNode(tx, node, ipPrefixes).  saveOK = FALSE is a storage failure
\* of tx.Save.
RegisterNode(tbl, nid, node, ipPrefixes, saveOK) ==
    LET keep == [err |-> "", nodes |-> tbl, nextID |-> nid, node |-> node]
    IN  IF Len(node.IPAddresses) > 0
        THEN IF ~saveOK
             THEN [keep EXCEPT !.err = "ErrSave"]
             ELSE [err |-> ""] @@ Save(tbl, nid, node)
        ELSE LET got == getAvailableIPs(tbl, ipPrefixes)
             IN  IF got.err # ""
                 THEN [keep EXCEPT !.err = got.err]
                 ELSE IF ~saveOK
                      THEN [keep EXCEPT !.err = "ErrSave"]
                      ELSE [err |-> ""] @@
                           Save(tbl, nid, [node EXCEPT !.IPAddresses = got.ips])

\* deleteNodeRoutes: the route rows of node id are removed.
deleteNodeRoutes(rts, id) == {r \in rts : r.NodeID # id}

\* DeleteNode(tx, node): the node's routes, then the node row.
DeleteNode(tbl, rts, id) ==
    [nodes  |-> [i \in DOMAIN tbl \ {id} |-> tbl[i]],
     routes |-> deleteNodeRoutes(rts, id)]

(* ----------------------------- given names --------------------------- *)

NodeGivenNameHashLength == 8
NodeGivenNameTrimSize == 2
\* util.LabelHostnameLength: the longest DNS label.
LabelHostnameLength == 63

\* The hostnames devices supply; the last one is 60 characters long.
Hostnames ==
    {"Laptop", "laptop", "srv",
     "a123456789b123456789c123456789d123456789e123456789f123456789"}

\* What util.GenerateRandomStringDNSSafe(NodeGivenNameHashLength) may return.
Suffixes == {"k3x9q2mz", "p7w4n8rt"}

\* util.NormalizeToFQDNRulesConfigFromViper: lower case, and an error for a
\* label longer than LabelHostnameLength.
Normalize(name) ==
    IF Len(name) > LabelHostnameLength
    THEN [err |-> "ErrInvalidName", name |-> ""]
    ELSE [err |-> "", name |-> IF name = "Laptop" THEN "laptop" ELSE name]

\* util.CheckForFQDNRules: a label of at most LabelHostnameLength lower-case
\* characters.
CheckForFQDNRules(name) ==
    IF Len(name) > LabelHostnameLength \/ Normalize(name).name # name
    THEN "ErrInvalidName" ELSE ""

\* generateGivenName(suppliedName, randomSuffix), suffix being the random
\* string drawn when randomSuffix is set.
generateGivenName(suppliedName, randomSuffix, suffix) ==
    LET norm == Normalize(suppliedName)
        trimmedHostnameLength ==
            LabelHostnameLength - NodeGivenNameHashLength - NodeGivenNameTrimSize
        trimmed == IF Len(norm.name) > trimmedHostnameLength
                   THEN SubSeq(norm.name, 1, trimmedHostnameLength)
                   ELSE norm.name
    IN  IF norm.err # "" THEN [err |-> norm.err, name |-> ""]
        ELSE IF randomSuffix THEN [err |-> "", name |-> trimmed \o "-" \o suffix]
        ELSE [err |-> "", name |-> norm.name]

\* GenerateGivenName(tx, mkey, suppliedName).
GenerateGivenName(tbl, mkey, suppliedName, suffix) ==
    LET plain == generateGivenName(suppliedName, FALSE, suffix)
        found == {id \in DOMAIN tbl : tbl[id].GivenName = plain.name}
    IN  IF plain.err # "" THEN plain
        ELSE IF \E id \in found : tbl[id].MachineKey # mkey
             THEN generateGivenName(suppliedName, TRUE, suffix)
             ELSE plain

\* RenameNode(tx, nodeID, newName).
RenameNode(tbl, nodeID, newName) ==
    IF CheckForFQDNRules(newName) # ""
    THEN [err |-> CheckForFQDNRules(newName), nodes |-> tbl]
    ELSE [err |-> "",
          nodes |-> [id \in DOMAIN tbl |->
                        IF id = nodeID THEN [tbl[id] EXCEPT !.GivenName = newName]
                        ELSE tbl[id]]]

(* ------------------------------- routes ------------------------------ *)

\* The strings enableRoutes is given; "bogus" is no CIDR.
ExitRoute == "0.0.0.0/0"
RouteStrs == {"10.0.1.0/24", ExitRoute, "bogus"}

\* netip.ParsePrefix.
ParsePrefix(routeStr) ==
    IF routeStr = "bogus" THEN [err |-> "ErrParsePrefix", prefix |-> ""]
    ELSE [err |-> "", prefix |-> routeStr]

Prefixes == {ParsePrefix(x).prefix : x \in RouteStrs \ {"bogus"}}

\* route.IsExitRoute().
IsExitRoute(route) == route.Prefix = ExitRoute

\* GetAdvertisedRoutes(tx, node).
GetAdvertisedRoutes(rts, id) ==
    {r.Prefix : r \in {x \in rts : x.NodeID = id /\ x.Advertised}}

\* isUniquePrefix(tx, route): no other node offers the route's prefix.
isUniquePrefix(rts, route) ==
    ~\E r \in rts : /\ r.Prefix = route.Prefix
                    /\ r.NodeID # route.NodeID
                    /\ (r.Advertised \/ r.Enabled)

\* The second loop of enableRoutes: each prefix's row, in order, is read,
\* enabled and saved; a prefix without a row ends the loop with an error,
\* the rows saved before it staying saved in the transaction.
RECURSIVE EnableLoop(_, _, _)
EnableLoop(rts, id, prefixes) ==
    IF prefixes = <<>> THEN [err |-> "", routes |-> rts]
    ELSE IF ~\E r \in rts : r.NodeID = id /\ r.Prefix = Head(prefixes)
    THEN [err |-> "ErrRecordNotFound", routes |-> rts]
    ELSE LET route == CHOOSE r \in rts : r.NodeID = id /\ r.Prefix = Head(prefixes)
             saved == [route EXCEPT
                         !.Enabled = TRUE,
                         !.IsPrimary = IF ~IsExitRoute(route)
                                       THEN isUniquePrefix(rts, route) ELSE @]
         IN  EnableLoop((rts \ {route}) \cup {saved}, id, Tail(prefixes))

\* enableRoutes with its two loops merged: each prefix is checked and
\* enabled in turn, so the rows before an unavailable prefix stay enabled.
RECURSIVE EnableOnePass(_, _, _)
EnableOnePass(rts, id, prefixes) ==
    IF prefixes = <<>> THEN [err |-> "", routes |-> rts]
    ELSE IF Head(prefixes) \notin GetAdvertisedRoutes(rts, id)
         THEN [err |-> "ErrNodeRouteIsNotAvailable", routes |-> rts]
         ELSE EnableOnePass(EnableLoop(rts, id, <<Head(prefixes)>>).routes, id,
                            Tail(prefixes))

enableRoutesOnePass(rts, id, routeStrs) ==
    LET idx == 1 .. Len(routeStrs)
    IN  IF \E i \in idx : ParsePrefix(routeStrs[i]).err # ""
        THEN [err |-> "ErrParsePrefix", routes |-> rts]
        ELSE EnableOnePass(rts, id, [i \in idx |-> ParsePrefix(routeStrs[i]).prefix])

\* The second loop of enableRoutes without the IsExitRoute test: the
\* primary flag of every enabled row, exit routes included, is set from
\* isUniquePrefix.
RECURSIVE EnableLoopNoExitTest(_, _, _)
EnableLoopNoExitTest(rts, id, prefixes) ==
    IF prefixes = <<>> THEN [err |-> "", routes |-> rts]
    ELSE IF ~\E r \in rts : r.NodeID = id /\ r.Prefix = Head(prefixes)
    THEN [err |-> "ErrRecordNotFound", routes |-> rts]
    ELSE LET route == CHOOSE r \in rts : r.NodeID = id /\ r.Prefix = Head(prefixes)
             saved == [route EXCEPT !.Enabled = TRUE,
                                    !.IsPrimary = isUniquePrefix(rts, route)]
         IN  EnableLoopNoExitTest((rts \ {route}) \cup {saved}, id, Tail(prefixes))

enableRoutesNoExitTest(rts, id, routeStrs) ==
    LET idx       == 1 .. Len(routeStrs)
        newRoutes == [i \in idx |-> ParsePrefix(routeStrs[i]).prefix]
        advertisedRoutes == GetAdvertisedRoutes(rts, id)
    IN  IF \E i \in idx : ParsePrefix(routeStrs[i]).err # ""
        THEN [err |-> "ErrParsePrefix", routes |-> rts]
        ELSE IF \E i \in idx : newRoutes[i] \notin advertisedRoutes
        THEN [err |-> "ErrNodeRouteIsNotAvailable", routes |-> rts]
        ELSE EnableLoopNoExitTest(rts, id, newRoutes)

\* enableRoutes that marks every enabled subnet route primary, without the
\* isUniquePrefix test.
enableRoutesAlwaysPrimary(rts, id, routeStrs) ==
    LET idx       == 1 .. Len(routeStrs)
        newRoutes == {ParsePrefix(routeStrs[i]).prefix : i \in idx}
    IN  IF \E i \in idx : ParsePrefix(routeStrs[i]).err # ""
        THEN [err |-> "ErrParsePrefix", routes |-> rts]
        ELSE IF ~(newRoutes \subseteq GetAdvertisedRoutes(rts, id))
        THEN [err |-> "ErrNodeRouteIsNotAvailable", routes |-> rts]
        ELSE [err |-> "",
              routes |-> {IF r.NodeID = id /\ r.Prefix \in newRoutes
                          THEN [r EXCEPT !.Enabled = TRUE,
                                         !.IsPrimary = IF IsExitRoute(r) THEN @ ELSE TRUE]
                          ELSE r : r \in rts}]

\* enableRoutes(tx, node, routeStrs...): the route table afterwards and the
\* error returned.
enableRoutes(rts, id, routeStrs) ==
    LET idx       == 1 .. Len(routeStrs)
        newRoutes == [i \in idx |-> ParsePrefix(routeStrs[i]).prefix]
        advertisedRoutes == GetAdvertisedRoutes(rts, id)
    IN  IF \E i \in idx : ParsePrefix(routeStrs[i]).err # ""
        THEN [err |-> "ErrParsePrefix", routes |-> rts]
        ELSE IF \E i \in idx : newRoutes[i] \notin advertisedRoutes
        THEN [err |-> "ErrNodeRouteIsNotAvailable", routes |-> rts]
        ELSE EnableLoop(rts, id, newRoutes)

(* --------------------------- lifecycle sweeps ------------------------- *)

\* ListNodesByUser: the identifiers of the user's nodes, in key order.
RECURSIVE SortedSeq(_)
SortedSeq(S) ==
    IF S = {} THEN <<>> ELSE <<Min(S)>> \o SortedSeq(S \ {Min(S)})

ListNodesByUser(tbl, user) ==
    SortedSeq({id \in DOMAIN tbl : tbl[id].UserID = user})

\* The test of ExpireEphemeralNodes without node.IsEphemeral().
IsInactiveAnyNode(node, t, inactivityThreshhold) ==
    /\ node.LastSeen # Nil
    /\ t > node.LastSeen[1] + inactivityThreshhold

\* The test of ExpireEphemeralNodes on one node, at clock reading t.
IsInactiveEphemeral(node, t, inactivityThreshhold) ==
    /\ node.Ephemeral
    /\ node.LastSeen # Nil
    /\ t > node.LastSeen[1] + inactivityThreshhold

\* The inner loop of ExpireEphemeralNodes over one user's node list ids
\* (read before the loop).  st = [nodes, routes, expired]; failDelete is the
\* set of nodes whose DeleteNode returns an error (logged, and the loop
\* goes on).
RECURSIVE SweepNodes(_, _, _, _, _, _)
SweepNodes(st, listed, ids, t, inactivityThreshhold, failDelete) ==
    IF ids = <<>> THEN st
    ELSE LET id   == Head(ids)
             hit  == IsInactiveEphemeral(listed[id], t, inactivityThreshhold)
             del  == DeleteNode(st.nodes, st.routes, id)
             next == IF ~hit THEN st
                     ELSE IF id \in failDelete
                          THEN [st EXCEPT !.expired = Append(@, id)]
                          ELSE [nodes   |-> del.nodes,
                                routes  |-> del.routes,
                                expired |-> Append(st.expired, id),
                                failed  |-> st.failed]
         IN  SweepNodes(next, listed, Tail(ids), t, inactivityThreshhold, failDelete)

\* The outer loop of ExpireEphemeralNodes over the users; failList is the
\* set of users whose ListNodesByUser returns an error.
RECURSIVE SweepUsers(_, _, _, _, _, _)
SweepUsers(st, users, t, inactivityThreshhold, failList, failDelete) ==
    IF users = <<>> THEN st
    ELSE IF Head(users) \in failList
         THEN [st EXCEPT !.failed = TRUE]
         ELSE SweepUsers(
                SweepNodes(st, st.nodes, ListNodesByUser(st.nodes, Head(users)),
                           t, inactivityThreshhold, failDelete),
                Tail(users), t, inactivityThreshhold, failList, failDelete)

\* ExpireEphemeralNodes(tx, inactivityThreshhold): the tables afterwards and
\* the returned (StateUpdate, bool).
ExpireEphemeralNodes(tbl, rts, t, inactivityThreshhold, failList, failDelete) ==
    LET st == SweepUsers([nodes |-> tbl, routes |-> rts, expired |-> <<>>,
                          failed |-> FALSE],
                         ListUsers, t, inactivityThreshhold, failList, failDelete)
    IN  [nodes   |-> st.nodes,
         routes  |-> st.routes,
         changed |-> ~st.failed /\ Len(st.expired) > 0,
         type    |-> IF ~st.failed /\ Len(st.expired) > 0
                     THEN "StatePeerRemoved" ELSE "",
         removed |-> IF st.failed THEN <<>> ELSE st.expired]

\* node.IsExpired() at clock reading t.
IsExpired(node, t) == node.Expiry # Nil /\ t > node.Expiry[1]

\* The loop of ExpireExpiredNodes over the listed nodes, examined at clock
\* reading t.  st = [nodes, expired]; a patch carries node.Expiry as it was
\* read from the listing; failUpdate is the set of nodes whose Updates
\* returns an error (logged, the row left as it was, the patch kept).
RECURSIVE ExpireLoop(_, _, _, _, _, _)
ExpireLoop(st, listed, ids, t, lastCheck, failUpdate) ==
    IF ids = <<>> THEN st
    ELSE LET id   == Head(ids)
             node == listed[id]
             hit  == IsExpired(node, t) /\ node.Expiry[1] > lastCheck
             next == IF ~hit THEN st
                     ELSE [nodes   |-> IF id \in failUpdate THEN st.nodes
                                       ELSE [st.nodes EXCEPT ![id].Expiry = <<t>>],
                           expired |-> Append(st.expired,
                                              [NodeID    |-> id,
                                               KeyExpiry |-> node.Expiry])]
         IN  ExpireLoop(next, listed, Tail(ids), t, lastCheck, failUpdate)

\* ExpireExpiredNodes(tx, lastCheck): started is the clock at entry, t the
\* clock when the nodes are examined; listOK = FALSE is a failure of
\* ListNodes.
ExpireExpiredNodes(tbl, started, t, lastCheck, listOK, failUpdate) ==
    IF ~listOK
    THEN [nodes |-> tbl, cursor |-> Epoch, changed |-> FALSE, patches |-> <<>>]
    ELSE LET st == ExpireLoop([nodes |-> tbl, expired |-> <<>>], tbl,
                              SortedSeq(DOMAIN tbl), t, lastCheck, failUpdate)
         IN  [nodes   |-> st.nodes,
              cursor  |-> started,
              changed |-> Len(st.expired) > 0,
              patches |-> st.expired]

(* ------------------------------ actions ------------------------------- *)

NoNode ==
    [ID |-> 0, MachineKey |-> "", UserID |-> 0, GivenName |-> "",
     IPAddresses |-> <<>>, Expiry |-> Nil, LastSeen |-> Nil,
     Ephemeral |-> FALSE]

NoArg == [id |-> 0, mkey |-> "", user |-> "", node |-> NoNode, t |-> 0,
          strs |-> <<>>, fail |-> {}]
NoOut == [id |-> 0, removed |-> <<>>, patches |-> <<>>, cursor |-> 0,
          changed |-> FALSE, type |-> ""]

Op(name, err, arg, out) == [op |-> name, err |-> err, arg |-> arg, out |-> out]

\* The callers that may run an operation at the same time.
Procs == {1, 2}

\* A caller with no call in flight.
NoTx == [pc |-> "idle", inTx |-> FALSE, node |-> NoNode, prefix |-> "",
         unique |-> FALSE, since |-> 0]

Init ==
    /\ nodes = <<>>
    /\ routes = {}
    /\ cache = <<>>
    /\ nextID = 1
    /\ now = 0
    /\ last = Op("init", "", NoArg, NoOut)
    /\ sweeper = [lastCheck |-> Epoch, reported |-> {}, clean |-> TRUE]
    /\ txs = [p \in Procs |-> NoTx]

\* A node as a device presents it before its first authorization.
FreshNode(mkey, user, givenName, ephemeral, expiry) ==
    [NoNode EXCEPT !.MachineKey = mkey, !.UserID = user,
                   !.GivenName = givenName, !.Ephemeral = ephemeral,
                   !.Expiry = expiry]

\* cache.Delete(mkey).
CacheDelete(c, mkey) == [k \in DOMAIN c \ {mkey} |-> c[k]]

KeyPersisted(mkey) == \E id \in DOMAIN nodes : nodes[id].MachineKey = mkey

\* The machine keys of the devices that may register for the first time
\* while identifiers up to cap are left.
NewKeys(cap) == {m \in MachineKeys : nextID <= cap /\ ~KeyPersisted(m)}

\* The registration cache holds values of any type: a Node is wrapped as
\* [isNode |-> TRUE, node |-> n].
CacheSet(mkey, entry) ==
    [k \in DOMAIN cache \cup {mkey} |-> IF k = mkey THEN entry ELSE cache[k]]

\* The login flow parks a device that is not yet authorized.
CachePutFresh(mkey) ==
    /\ ~KeyPersisted(mkey)
    /\ cache' = CacheSet(mkey, [isNode |-> TRUE,
                                node |-> FreshNode(mkey, 0, "laptop", FALSE, Nil)])
    /\ last' = Op("CachePutFresh", "", NoArg, NoOut)
    /\ UNCHANGED <<nodes, routes, nextID, now, sweeper, txs>>

\* The login flow parks a persisted node that authorizes again (expired or
\* logged out): the entry is a copy of its row.
CachePutExisting(id) ==
    /\ id \in DOMAIN nodes
    /\ cache' = CacheSet(nodes[id].MachineKey, [isNode |-> TRUE, node |-> nodes[id]])
    /\ last' = Op("CachePutExisting", "", NoArg, NoOut)
    /\ UNCHANGED <<nodes, routes, nextID, now, sweeper, txs>>

\* An entry that is no types.Node.
CachePutOther(mkey) ==
    /\ cache' = CacheSet(mkey, [isNode |-> FALSE, node |-> NoNode])
    /\ last' = Op("CachePutOther", "", NoArg, NoOut)
    /\ UNCHANGED <<nodes, routes, nextID, now, sweeper, txs>>

\* The cache's own TTL drops an entry.
CacheExpire(mkey) ==
    /\ mkey \in DOMAIN cache
    /\ cache' = CacheDelete(cache, mkey)
    /\ last' = Op("CacheExpire", "", NoArg, NoOut)
    /\ UNCHANGED <<nodes, routes, nextID, now, sweeper, txs>>

\* RegisterNodeFromAuthCallback without the test of the registered user.
RegisterNodeFromAuthCallbackAnyUser(tbl, nid, c, mkey, userName, nodeExpiry, ipPrefixes, saveOK) ==
    IF mkey \notin DOMAIN c
    THEN [err |-> "ErrNodeNotFoundRegistrationCache", nodes |-> tbl,
          nextID |-> nid, cache |-> c, node |-> NoNode]
    ELSE IF ~c[mkey].isNode
    THEN [err |-> "ErrCouldNotConvertNodeInterface", nodes |-> tbl,
          nextID |-> nid, cache |-> c, node |-> NoNode]
    ELSE IF GetUser(userName).err # ""
    THEN [err |-> GetUser(userName).err, nodes |-> tbl,
          nextID |-> nid, cache |-> c, node |-> NoNode]
    ELSE LET reg == RegisterNode(tbl, nid,
                                 [c[mkey].node EXCEPT
                                    !.UserID = GetUser(userName).ID,
                                    !.Expiry = IF nodeExpiry # Nil
                                               THEN nodeExpiry ELSE @],
                                 ipPrefixes, saveOK)
         IN  [err |-> reg.err, nodes |-> reg.nodes, nextID |-> reg.nextID,
              node |-> reg.node,
              cache |-> IF reg.err = "" THEN CacheDelete(c, mkey) ELSE c]

\* RegisterNodeFromAuthCallback(tx, cache, mkey, userName, nodeExpiry,
\* registrationMethod, ipPrefixes) as a function of the tables and the cache.
RegisterNodeFromAuthCallback(tbl, nid, c, mkey, userName, nodeExpiry, ipPrefixes, saveOK) ==
    LET keep == [nodes |-> tbl, nextID |-> nid, cache |-> c, node |-> NoNode]
    IN  IF mkey \notin DOMAIN c
        THEN [err |-> "ErrNodeNotFoundRegistrationCache"] @@ keep
        ELSE IF ~c[mkey].isNode
        THEN [err |-> "ErrCouldNotConvertNodeInterface"] @@ keep
        ELSE LET registrationNode == c[mkey].node
                 user == GetUser(userName)
             IN  IF user.err # ""
                 THEN [err |-> user.err] @@ keep
                 ELSE IF registrationNode.ID # 0 /\ registrationNode.UserID # user.ID
                 THEN [err |-> "ErrDifferentRegisteredUser"] @@ keep
                 ELSE LET bound == [registrationNode EXCEPT
                                      !.UserID = user.ID,
                                      !.Expiry = IF nodeExpiry # Nil
                                                 THEN nodeExpiry ELSE @]
                          reg == RegisterNode(tbl, nid, bound, ipPrefixes, saveOK)
                      IN  [err    |-> reg.err,
                           nodes  |-> reg.nodes,
                           nextID |-> reg.nextID,
                           node   |-> reg.node,
                           cache  |-> IF reg.err = "" THEN CacheDelete(c, mkey)
                                      ELSE c]

\* The callback inside the caller's write transaction: the transaction's
\* commit follows the callback's return; fault = "commit" is a failed commit,
\* which rolls the tables back and leaves the cache as the callback left it.
RegisterNodeFromAuthCallbackOp(mkey, userName, nodeExpiry, fault) ==
    LET r == RegisterNodeFromAuthCallback(nodes, nextID, cache, mkey, userName,
                                          nodeExpiry, IpPrefixes, fault # "save")
        commitOK == fault # "commit"
        committed == r.err = "" /\ commitOK
    IN  /\ r.nextID <= MaxIdentityID + 1
        \* a fault is injected only where the call gets to: tx.Save, the commit
        /\ fault = "save" => r.err = "ErrSave"
        /\ fault = "commit" => r.err = ""
        /\ nodes' = IF committed THEN r.nodes ELSE nodes
        /\ nextID' = IF committed THEN r.nextID ELSE nextID
        /\ cache' = r.cache
        /\ last' = Op("RegisterNodeFromAuthCallback",
                      IF r.err = "" /\ ~commitOK THEN "ErrCommit" ELSE r.err,
                      [NoArg EXCEPT !.mkey = mkey, !.user = userName],
                      [NoOut EXCEPT !.id = IF committed THEN r.node.ID ELSE 0])
        /\ UNCHANGED <<routes, now, sweeper, txs>>

\* hsdb.RegisterNode(node): RegisterNode in its own write transaction.
RegisterNodeOp(node, saveOK) ==
    LET r == RegisterNode(nodes, nextID, node, IpPrefixes, saveOK)
    IN  /\ nodes' = r.nodes
        /\ nextID' = r.nextID
        /\ last' = Op("RegisterNode", r.err, [NoArg EXCEPT !.node = node],
                      [NoOut EXCEPT !.id = IF r.err = "" THEN r.node.ID ELSE 0])
        /\ UNCHANGED <<routes, cache, now, sweeper, txs>>

\* hsdb.DeleteNode(node).
DeleteNodeOp(id) ==
    LET r == DeleteNode(nodes, routes, id)
    IN  /\ id \in DOMAIN nodes
        /\ nodes' = r.nodes
        /\ routes' = r.routes
        /\ last' = Op("DeleteNode", "", [NoArg EXCEPT !.id = id], NoOut)
        /\ UNCHANGED <<cache, nextID, now, sweeper, txs>>

\* UpdateLastSeen(tx, nodeID, lastSeen) with the current time.
UpdateLastSeenOp(id) ==
    /\ id \in DOMAIN nodes
    /\ nodes' = [nodes EXCEPT ![id].LastSeen = <<now>>]
    /\ last' = Op("UpdateLastSeen", "", [NoArg EXCEPT !.id = id], NoOut)
    /\ UNCHANGED <<routes, cache, nextID, sweeper, txs>>
    /\ UNCHANGED now

\* The wall clock advances.
Tick ==
    /\ now < MaxTime
    /\ now' = now + 1
    /\ last' = Op("Tick", "", NoArg, NoOut)
    /\ UNCHANGED <<nodes, routes, cache, nextID, sweeper, txs>>

\* ExpireEphemeralNodes in the scheduler's write transaction, which commits
\* whatever the pass did: the function returns no error to roll back on.
\* failList is the set of users whose listing fails (the pass ends at the
\* first), failDelete the set of nodes whose DeleteNode fails; a fault is
\* injected only at a node the pass tries to delete.
ExpireEphemeralNodesOp(inactivityThreshhold, failList, failDelete) ==
    LET r == ExpireEphemeralNodes(nodes, routes, now, inactivityThreshhold,
                                  failList, failDelete)
    IN  /\ Cardinality(failList) <= 1
        /\ \A id \in failDelete :
              IsInactiveEphemeral(nodes[id], now, inactivityThreshhold)
        /\ nodes' = r.nodes
        /\ routes' = r.routes
        /\ last' = Op("ExpireEphemeralNodes",
                      IF failList # {} THEN "ErrListNodesByUser"
                      ELSE IF failDelete # {} THEN "ErrDeleteNode" ELSE "",
                      [NoArg EXCEPT !.t = inactivityThreshhold, !.fail = failDelete],
                      [NoOut EXCEPT !.removed = r.removed, !.changed = r.changed,
                                    !.type = r.type])
        /\ UNCHANGED <<cache, nextID, now, sweeper, txs>>

\* The identifiers in a list of patches.
PatchIDs(patches) == {patches[i].NodeID : i \in 1 .. Len(patches)}

\* ExpireExpiredNodes in a write transaction, called with any cursor.  The
\* clock may advance between the reading of started and the examination of
\* the nodes.  A fault is injected only where the call gets to.
ExpireExpiredNodesOp(lastCheck, t, listOK, failUpdate) ==
    LET r == ExpireExpiredNodes(nodes, now, t, lastCheck, listOK, failUpdate)
    IN  /\ t >= now
        /\ failUpdate \subseteq PatchIDs(r.patches)
        /\ nodes' = r.nodes
        /\ now' = t
        /\ last' = Op("ExpireExpiredNodes",
                      IF listOK /\ failUpdate = {} THEN "" ELSE "storage",
                      [NoArg EXCEPT !.t = lastCheck],
                      [NoOut EXCEPT !.patches = r.patches, !.changed = r.changed,
                                    !.cursor = r.cursor,
                                    !.type = IF r.changed
                                             THEN "StatePeerChangedPatch" ELSE ""])
        /\ UNCHANGED <<routes, cache, nextID, sweeper, txs>>

(* ---------------------- the identity specification -------------------- *)

\* Storage faults of one call: none, tx.Save fails, the commit fails.
Faults == {"", "save", "commit"}

\* What hsdb.RegisterNode is called with: a device's first registration
\* (its machine key not yet in the table), or the current row of a node that
\* registers again.
RegisterInputs ==
    {FreshNode(k, u, "laptop", FALSE, Nil) : k \in NewKeys(MaxIdentityID), u \in Users}
    \cup {nodes[id] : id \in DOMAIN nodes}

Next ==
    \/ \E mkey \in MachineKeys : CachePutFresh(mkey)
    \/ \E id \in DOMAIN nodes : CachePutExisting(id)
    \/ \E mkey \in MachineKeys : CachePutOther(mkey)
    \/ \E mkey \in MachineKeys : CacheExpire(mkey)
    \/ \E mkey \in MachineKeys, userName \in UserNames,
          nodeExpiry \in {Nil}, fault \in Faults :
          RegisterNodeFromAuthCallbackOp(mkey, userName, nodeExpiry, fault)
    \/ \E node \in RegisterInputs : RegisterNodeOp(node, TRUE)
    \/ \E id \in DOMAIN nodes : DeleteNodeOp(id)

Spec == Init /\ [][Next]_vars

(* ----------------------- the route specification ---------------------- *)

\* A device advertises a prefix: its route row is created, not yet enabled.
AdvertiseRoute(id, prefix) ==
    /\ id \in DOMAIN nodes
    /\ ~\E r \in routes : r.NodeID = id /\ r.Prefix = prefix
    /\ routes' = routes \cup {[NodeID |-> id, Prefix |-> prefix, Advertised |-> TRUE,
                               Enabled |-> FALSE, IsPrimary |-> FALSE]}
    /\ last' = Op("AdvertiseRoute", "", NoArg, NoOut)
    /\ UNCHANGED <<nodes, cache, nextID, now, sweeper, txs>>

\* enableRoutes(tx, node, routeStrs...) in a write transaction: routes' is
\* the route table of the transaction when enableRoutes returns.
EnableRoutesOp(id, routeStrs) ==
    LET r == enableRoutes(routes, id, routeStrs)
    IN  /\ id \in DOMAIN nodes
        /\ routes' = r.routes
        /\ last' = Op("enableRoutes", r.err,
                      [NoArg EXCEPT !.id = id, !.strs = routeStrs], NoOut)
        /\ UNCHANGED <<nodes, cache, nextID, now, sweeper, txs>>

\* The batches of route strings, up to MaxBatch long.
Batches == UNION {[1 .. n -> RouteStrs] : n \in 0 .. MaxBatch}

\* The nodes whose routes are managed: first registrations of one user.
RouteNodeInputs ==
    {FreshNode(k, 1, "laptop", FALSE, Nil) : k \in NewKeys(MaxID)}

NextRoutes ==
    \/ \E node \in RouteNodeInputs : RegisterNodeOp(node, TRUE)
    \/ \E id \in DOMAIN nodes, prefix \in Prefixes : AdvertiseRoute(id, prefix)
    \/ \E id \in DOMAIN nodes, routeStrs \in Batches : EnableRoutesOp(id, routeStrs)
    \/ \E id \in DOMAIN nodes : DeleteNodeOp(id)

SpecRoutes == Init /\ [][NextRoutes]_vars

(* ------------------- properties of the identity specification --------- *)

IPSet(node) == SeqToSet(node.IPAddresses)

\* C1: every persisted node holds at least one address, and no address is
\* held by two persisted nodes.
C1_AddressesNonEmptyAndDisjoint ==
    \A a \in DOMAIN nodes :
        /\ IPSet(nodes[a]) # {}
        /\ \A b \in DOMAIN nodes \ {a} : IPSet(nodes[a]) \cap IPSet(nodes[b]) = {}

\* The node a registration step was given: the argument of RegisterNode, or
\* the cache entry RegisterNodeFromAuthCallback found (read before the step).
RegisteredInput ==
    IF last'.op = "RegisterNode" THEN last'.arg.node
    ELSE cache[last'.arg.mkey].node

\* A step in which RegisterNode persisted a node that already carried
\* addresses.
ReRegistrationStep ==
    /\ last'.op \in {"RegisterNode", "RegisterNodeFromAuthCallback"}
    /\ last'.err = ""
    /\ Len(RegisteredInput.IPAddresses) > 0

\* C4: a registration of a node that already carries addresses persists it
\* with those addresses, allocates nothing, and leaves the addresses of
\* every other node as they were.
C4_ReRegistrationKeepsAddresses ==
    [][ReRegistrationStep =>
          /\ last'.out.id \in DOMAIN nodes'
          /\ nodes'[last'.out.id].IPAddresses = RegisteredInput.IPAddresses
          /\ DOMAIN nodes' = DOMAIN nodes \cup {last'.out.id}
          /\ \A id \in DOMAIN nodes \ {last'.out.id} :
                nodes'[id].IPAddresses = nodes[id].IPAddresses
          /\ (last'.out.id \in DOMAIN nodes =>
                nodes'[last'.out.id].IPAddresses = nodes[last'.out.id].IPAddresses)
       ]_vars

\* C4's case: a node that carries addresses was registered again while
\* another node is persisted beside it.
C4_Witness ==
    /\ last.op = "RegisterNode"
    /\ last.err = ""
    /\ Len(last.arg.node.IPAddresses) > 0
    /\ Cardinality(DOMAIN nodes) = 2

\* A callback step whose cache entry is a previously authorized node and
\* whose user resolves to another user than the entry's.
OtherUserStep ==
    /\ last'.op = "RegisterNodeFromAuthCallback"
    /\ last'.arg.mkey \in DOMAIN cache
    /\ cache[last'.arg.mkey].isNode
    /\ cache[last'.arg.mkey].node.ID # 0
    /\ GetUser(last'.arg.user).err = ""
    /\ GetUser(last'.arg.user).ID # cache[last'.arg.mkey].node.UserID

\* C7: the callback for a previously authorized node under another user
\* fails with ErrDifferentRegisteredUser and changes no node; no successful
\* callback changes the UserID of a persisted node.
C7_DifferentUserRejected ==
    [][/\ OtherUserStep =>
            /\ last'.err = "ErrDifferentRegisteredUser"
            /\ nodes' = nodes
       /\ (last'.op = "RegisterNodeFromAuthCallback" /\ last'.err = "") =>
            \A id \in DOMAIN nodes :
                id \in DOMAIN nodes' /\ nodes'[id].UserID = nodes[id].UserID
      ]_vars

\* C7's case: the callback was rejected for the user, with the node persisted.
C7_Witness ==
    /\ last.op = "RegisterNodeFromAuthCallback"
    /\ last.err = "ErrDifferentRegisteredUser"
    /\ last.arg.mkey \in DOMAIN cache
    /\ cache[last.arg.mkey].node.ID \in DOMAIN nodes

\* C8: the callback removes the machine key's cache entry when the
\* registration succeeded, and leaves the cache as it was on every failure.
C8_CacheEvictedOnlyOnSuccess ==
    [][last'.op = "RegisterNodeFromAuthCallback" =>
          cache' = IF last'.err = "" THEN CacheDelete(cache, last'.arg.mkey)
                   ELSE cache
      ]_vars

\* The identifiers handed out and no longer in the table: the deleted nodes.
Deleted == {id \in 1 .. nextID - 1 : id \notin DOMAIN nodes}

\* C9: DeleteNode removes the node and its routes, and no later step brings
\* a node with a deleted identifier back.
C9_DeletionIsTerminal ==
    [][/\ last'.op = "DeleteNode" =>
            /\ last'.arg.id \notin DOMAIN nodes'
            /\ ~\E r \in routes' : r.NodeID = last'.arg.id
       /\ \A id \in Deleted : id \notin DOMAIN nodes'
      ]_vars

(* -------------------- properties of the route specification ----------- *)

PrimaryRows(prefix) == {r \in routes : r.Prefix = prefix /\ r.IsPrimary}

\* C3: for every prefix that is no exit route, at most one route row is
\* primary.
C3_AtMostOnePrimary ==
    \A prefix \in Prefixes \ {ExitRoute} : Cardinality(PrimaryRows(prefix)) <= 1

\* C3's case: two nodes have the same subnet route enabled, one is primary.
C3_Witness ==
    \E r1 \in routes, r2 \in routes :
        /\ r1.Prefix = r2.Prefix /\ r1.NodeID # r2.NodeID
        /\ r1.Prefix # ExitRoute
        /\ r1.Enabled /\ r2.Enabled /\ r1.IsPrimary

\* The prefixes of an enableRoutes step whose strings all parse.
StepPrefixes == {ParsePrefix(last'.arg.strs[i]).prefix : i \in 1 .. Len(last'.arg.strs)}

StepParses ==
    \A i \in 1 .. Len(last'.arg.strs) : ParsePrefix(last'.arg.strs[i]).err = ""

\* C5: enableRoutes with a prefix the node has not advertised fails with
\* ErrNodeRouteIsNotAvailable and changes no route row.
C5_UnavailableRouteRejectsBatch ==
    [][(/\ last'.op = "enableRoutes"
        /\ StepParses
        /\ \E prefix \in StepPrefixes :
              ~\E r \in routes : /\ r.NodeID = last'.arg.id
                                 /\ r.Prefix = prefix
                                 /\ r.Advertised)
       => /\ last'.err = "ErrNodeRouteIsNotAvailable"
          /\ routes' = routes
      ]_vars

\* C5's case: a rejected batch whose first prefix the node has advertised
\* and not enabled.
C5_Witness ==
    /\ last.op = "enableRoutes"
    /\ last.err = "ErrNodeRouteIsNotAvailable"
    /\ Len(last.arg.strs) = 2
    /\ \E r \in routes : /\ r.NodeID = last.arg.id
                         /\ r.Prefix = last.arg.strs[1]
                         /\ r.Advertised /\ ~r.Enabled

Row(rts, id, prefix) == CHOOSE r \in rts : r.NodeID = id /\ r.Prefix = prefix

\* C6: a node enabling a subnet route that no other node offers becomes its
\* primary; a node enabling a subnet route that has a primary on another node
\* leaves that primary as it is and does not become primary.
C6_SoleOffererBecomesPrimary ==
    [][(last'.op = "enableRoutes" /\ last'.err = "") =>
          \A prefix \in StepPrefixes \ {ExitRoute} :
              /\ (~\E r \in routes : r.Prefix = prefix /\ r.NodeID # last'.arg.id)
                    => /\ Row(routes', last'.arg.id, prefix).Enabled
                       /\ Row(routes', last'.arg.id, prefix).IsPrimary
              /\ \A r \in routes :
                    (r.Prefix = prefix /\ r.NodeID # last'.arg.id /\ r.IsPrimary)
                    => /\ r \in routes'
                       /\ Row(routes', last'.arg.id, prefix).Enabled
                       /\ ~Row(routes', last'.arg.id, prefix).IsPrimary
      ]_vars

\* C6's case: the second node has just enabled the subnet route the first
\* node is primary for.
C6_Witness ==
    /\ last.op = "enableRoutes"
    /\ last.err = ""
    /\ \E r1 \in routes, r2 \in routes :
          /\ r1.Prefix = r2.Prefix /\ r1.Prefix # ExitRoute
          /\ r1.NodeID # last.arg.id /\ r1.Enabled /\ r1.IsPrimary
          /\ r2.NodeID = last.arg.id /\ r2.Enabled /\ ~r2.IsPrimary

\* C15: an enableRoutes call leaves primary every subnet route that was
\* primary while another node offers the same prefix.
C15_PrimaryNeverDemoted ==
    [][last'.op = "enableRoutes" =>
          \A r \in routes :
              (/\ r.IsPrimary /\ r.Prefix # ExitRoute
               /\ \E o \in routes : o.Prefix = r.Prefix /\ o.NodeID # r.NodeID)
              => \E q \in routes' : /\ q.NodeID = r.NodeID /\ q.Prefix = r.Prefix
                                     /\ q.IsPrimary
      ]_vars

\* The primary flag of every route row, by node and prefix.
PrimaryFlags(rts) == {<<r.NodeID, r.Prefix, r.IsPrimary>> : r \in rts}

\* C21: exit routes take no part in the primary election.  An enableRoutes
\* call leaves the primary flag of every exit-route row as it was, and a call
\* given only the exit route changes no primary flag at all; when it
\* succeeds the caller's exit-route row is enabled, whatever other nodes
\* have the exit route enabled, and their rows stay as they were.
C21_ExitRoutesExemptFromElection ==
    [][(last'.op = "enableRoutes" /\ StepParses /\ ExitRoute \in StepPrefixes) =>
          /\ \A r \in routes : r.Prefix = ExitRoute =>
                \E q \in routes' : /\ q.NodeID = r.NodeID /\ q.Prefix = r.Prefix
                                   /\ q.IsPrimary = r.IsPrimary
          /\ StepPrefixes = {ExitRoute} => PrimaryFlags(routes') = PrimaryFlags(routes)
          /\ \A r \in routes :
                (r.Prefix = ExitRoute /\ r.NodeID # last'.arg.id) => r \in routes'
          /\ last'.err = "" => Row(routes', last'.arg.id, ExitRoute).Enabled
          /\ (\E r \in routes : /\ r.NodeID = last'.arg.id /\ r.Prefix = ExitRoute
                                /\ r.Advertised)
                => (StepPrefixes = {ExitRoute} => last'.err = "")
      ]_vars

\* C21's case: a node has just enabled the exit route, every other node has
\* it enabled as well, and no exit-route row is primary.
ExitEnabledNodes == {r.NodeID : r \in {x \in routes : x.Prefix = ExitRoute /\ x.Enabled}}

C21_Witness ==
    /\ last.op = "enableRoutes"
    /\ last.err = ""
    /\ ExitRoute \in {last.arg.strs[i] : i \in 1 .. Len(last.arg.strs)}
    /\ Cardinality(ExitEnabledNodes) >= 2
    /\ ExitEnabledNodes = DOMAIN nodes
    /\ \A r \in routes : r.Prefix = ExitRoute => ~r.IsPrimary

(* ------------------------ the naming specification -------------------- *)

\* A device registers for the first time under the name GenerateGivenName
\* gives it; the random suffix, when one is drawn, collides with no name in
\* the table.
RegisterGeneratedOp(mkey, suppliedName, suffix) ==
    LET g == GenerateGivenName(nodes, mkey, suppliedName, suffix)
        r == RegisterNode(nodes, nextID, FreshNode(mkey, 1, g.name, FALSE, Nil),
                          IpPrefixes, TRUE)
    IN  /\ mkey \in NewKeys(MaxID)
        /\ g.err = ""
        /\ g.name # generateGivenName(suppliedName, FALSE, suffix).name
              => ~\E id \in DOMAIN nodes : nodes[id].GivenName = g.name
        /\ nodes' = r.nodes
        /\ nextID' = r.nextID
        /\ last' = Op("RegisterGenerated", r.err, [NoArg EXCEPT !.mkey = mkey],
                      [NoOut EXCEPT !.id = IF r.err = "" THEN r.node.ID ELSE 0])
        /\ UNCHANGED <<routes, cache, now, sweeper, txs>>

\* RenameNode in a write transaction.
RenameNodeOp(id, newName) ==
    LET r == RenameNode(nodes, id, newName)
    IN  /\ id \in DOMAIN nodes
        /\ nodes' = r.nodes
        /\ last' = Op("RenameNode", r.err, [NoArg EXCEPT !.id = id], NoOut)
        /\ UNCHANGED <<routes, cache, nextID, now, sweeper, txs>>

NextNames ==
    \/ \E mkey \in MachineKeys, suppliedName \in Hostnames, suffix \in Suffixes :
          RegisterGeneratedOp(mkey, suppliedName, suffix)
    \/ \E id \in DOMAIN nodes, newName \in Hostnames : RenameNodeOp(id, newName)
    \/ \E id \in DOMAIN nodes : DeleteNodeOp(id)

SpecNames == Init /\ [][NextNames]_vars

\* C2: no two persisted nodes have the same GivenName.
C2_GivenNamesDiffer ==
    \A a \in DOMAIN nodes : \A b \in DOMAIN nodes \ {a} :
        nodes[a].GivenName # nodes[b].GivenName

(* ------------------------- the sweep specification -------------------- *)

\* The nodes the ephemeral sweep runs over: first registrations, ephemeral
\* or not.
SweepNodeInputs ==
    {FreshNode(k, u, "laptop", e, Nil) :
        k \in NewKeys(MaxID), u \in Users, e \in BOOLEAN}

NextSweep ==
    \/ \E node \in SweepNodeInputs : RegisterNodeOp(node, TRUE)
    \/ \E id \in DOMAIN nodes : UpdateLastSeenOp(id)
    \/ Tick
    \/ \E th \in 0 .. 1, failList \in SUBSET Users, failDelete \in SUBSET DOMAIN nodes :
          ExpireEphemeralNodesOp(th, failList, failDelete)

SpecSweep == Init /\ [][NextSweep]_vars

\* The nodes the ephemeral sweep is to remove at threshold th: ephemeral,
\* seen at some time, and that time is before now - th.
Qualifying(th) ==
    {id \in DOMAIN nodes :
        /\ nodes[id].Ephemeral
        /\ Len(nodes[id].LastSeen) = 1
        /\ nodes[id].LastSeen[1] < now - th}

C19_ListingFailureAbortsPass ==
    [][(last'.op = "ExpireEphemeralNodes" /\ last'.err = "ErrListNodesByUser") =>
          /\ ~last'.out.changed
          /\ nodes' = nodes
          /\ routes' = routes
      ]_vars

\* C20: a pass in which the deletion of a node fails still deletes every
\* other qualifying node, and every identifier of its Removed list is absent
\* from the node table afterwards.
C20_RemovedListOnlyDeleted ==
    [][(last'.op = "ExpireEphemeralNodes" /\ last'.err = "ErrDeleteNode") =>
          /\ \A id \in Qualifying(last'.arg.t) \ last'.arg.fail :
                id \notin DOMAIN nodes'
          /\ \A id \in SeqToSet(last'.out.removed) : id \notin DOMAIN nodes'
      ]_vars

(* ----------------------- the allocation specification ---------------- *)

\* The machine keys of the devices that ask for addresses: more devices than
\* a prefix has addresses.
AllocKeys == {"mk1", "mk2", "mk3", "mk4"}

\* First registrations, while identifiers are left.
AllocNodeInputs ==
    {FreshNode(k, 1, "laptop", FALSE, Nil) :
        k \in {m \in AllocKeys : nextID <= MaxID /\ ~KeyPersisted(m)}}

NextAlloc ==
    \/ \E node \in AllocNodeInputs, saveOK \in BOOLEAN : RegisterNodeOp(node, saveOK)
    \/ \E id \in DOMAIN nodes : DeleteNodeOp(id)

SpecAlloc == Init /\ [][NextAlloc]_vars

\* The addresses of prefix p no persisted node holds.
FreeAddrs(p) == PrefixAddrs(p) \ UsedIPs(nodes)

\* C14: RegisterNode of a node without addresses gives it, for each
\* configured prefix in order, the lowest address of the prefix no persisted
\* node holds, and changes no other row; when some prefix has no free address,
\* or the call fails otherwise, it returns an error and the node table and
\* the identifier counter stay as they were.
C14_LowestFreeAddressOrNothing ==
    [][(last'.op = "RegisterNode" /\ Len(last'.arg.node.IPAddresses) = 0) =>
          /\ (\E i \in 1 .. Len(IpPrefixes) : FreeAddrs(IpPrefixes[i]) = {})
                => last'.err # ""
          /\ last'.err # "" => nodes' = nodes /\ nextID' = nextID
          /\ last'.err = "" =>
                /\ DOMAIN nodes' = DOMAIN nodes \cup {last'.out.id}
                /\ last'.out.id \notin DOMAIN nodes
                /\ \A id \in DOMAIN nodes : nodes'[id] = nodes[id]
                /\ Len(nodes'[last'.out.id].IPAddresses) = Len(IpPrefixes)
                /\ \A i \in 1 .. Len(IpPrefixes) :
                      /\ nodes'[last'.out.id].IPAddresses[i] \in FreeAddrs(IpPrefixes[i])
                      /\ \A a \in FreeAddrs(IpPrefixes[i]) :
                            nodes'[last'.out.id].IPAddresses[i] <= a
      ]_vars

\* C14's case: a registration was refused because a prefix has no free
\* address, and the table is full.
C14_Witness ==
    /\ last.op = "RegisterNode"
    /\ last.err = "ErrCouldNotAllocateIP"
    /\ \E i \in 1 .. Len(IpPrefixes) : FreeAddrs(IpPrefixes[i]) = {}
    /\ last.arg.node.MachineKey \notin {nodes[id].MachineKey : id \in DOMAIN nodes}

(* ------------------------- the expiry specification ------------------- *)

\* The nodes the expiry sweep runs over: first registrations with or
\* without a key expiry.
ExpiryNodeInputs ==
    {FreshNode(k, 1, "laptop", FALSE, x) :
        k \in NewKeys(MaxID), x \in {Nil} \cup {<<t>> : t \in Times}}

NextExpiry ==
    \/ \E node \in ExpiryNodeInputs : RegisterNodeOp(node, TRUE)
    \/ Tick
    \/ \E lastCheck \in Times, t \in Times, listOK \in BOOLEAN,
          failUpdate \in SUBSET DOMAIN nodes :
          ExpireExpiredNodesOp(lastCheck, t, listOK, failUpdate)

SpecExpiry == Init /\ [][NextExpiry]_vars

\* C11: of two runs of ExpireExpiredNodes in succession with the same
\* lastCheck, neither with a storage failure, the second reports no node the
\* first reported.
C11_SameCursorNoDoubleReport ==
    [][(/\ last.op = "ExpireExpiredNodes" /\ last.err = ""
        /\ last'.op = "ExpireExpiredNodes" /\ last'.err = ""
        /\ last'.arg.t = last.arg.t)
       => PatchIDs(last.out.patches) \cap PatchIDs(last'.out.patches) = {}
      ]_vars

\* C18: every patch ExpireExpiredNodes returns carries the Expiry the row of
\* its node holds after the pass.
C18_PatchCarriesStoredExpiry ==
    [][last'.op = "ExpireExpiredNodes" =>
          \A i \in 1 .. Len(last'.out.patches) :
              /\ last'.out.patches[i].NodeID \in DOMAIN nodes'
              /\ last'.out.patches[i].KeyExpiry =
                     nodes'[last'.out.patches[i].NodeID].Expiry
      ]_vars

(* ---------------------- the expiry scheduler specification ------------ *)

\* One pass of the scheduler's loop: ExpireExpiredNodes is called with the
\* cursor the previous pass returned, and the cursor it returns is kept for
\* the next pass.
ExpirePass(t, listOK, failUpdate) ==
    LET r == ExpireExpiredNodes(nodes, now, t, sweeper.lastCheck, listOK, failUpdate)
    IN  /\ t >= now
        /\ failUpdate \subseteq PatchIDs(r.patches)
        /\ nodes' = r.nodes
        /\ now' = t
        /\ sweeper' = [lastCheck |-> r.cursor,
                       reported  |-> sweeper.reported \cup PatchIDs(r.patches),
                       clean     |-> sweeper.clean /\ listOK /\ failUpdate = {}]
        /\ last' = Op("ExpirePass",
                      IF listOK /\ failUpdate = {} THEN "" ELSE "storage",
                      [NoArg EXCEPT !.t = sweeper.lastCheck],
                      [NoOut EXCEPT !.patches = r.patches, !.changed = r.changed,
                                    !.cursor = r.cursor,
                                    !.type = IF r.changed
                                             THEN "StatePeerChangedPatch" ELSE ""])
        /\ UNCHANGED <<routes, cache, nextID, txs>>

\* The nodes that register while the scheduler runs: without a key expiry,
\* or with one that lies ahead.
LoopNodeInputs ==
    {FreshNode(k, 1, "laptop", FALSE, x) :
        k \in NewKeys(MaxID), x \in {Nil} \cup {<<t>> : t \in {u \in Times : u > now}}}

NextExpiryLoop ==
    \/ \E node \in LoopNodeInputs : RegisterNodeOp(node, TRUE)
    \/ Tick
    \/ \E t \in Times, listOK \in BOOLEAN, failUpdate \in SUBSET DOMAIN nodes :
          ExpirePass(t, listOK, failUpdate)

SpecExpiryLoop == Init /\ [][NextExpiryLoop]_vars

\* C16: while no pass has had a storage failure, after every pass each node
\* whose Expiry lies after the first cursor and before the clock reading at
\* which the pass examined the nodes has been reported by this pass or an
\* earlier one.
C16_NoExpiringNodeMissed ==
    [][(last'.op = "ExpirePass" /\ sweeper'.clean) =>
          \A id \in DOMAIN nodes :
              (/\ nodes[id].Expiry # Nil
               /\ nodes[id].Expiry[1] > Epoch
               /\ now' > nodes[id].Expiry[1])
              => id \in sweeper'.reported
      ]_vars

\* C17: while no pass has had a storage failure, a pass reports no node an
\* earlier pass reported (no other operation changes the Expiry of a node).
C17_ReportedOnlyOnce ==
    [][(last'.op = "ExpirePass" /\ sweeper'.clean) =>
          PatchIDs(last'.out.patches) \cap sweeper.reported = {}
      ]_vars

\* C22: the cursor a pass returns is never earlier than the cursor it was
\* given, whatever the outcome of the pass; and the pass that is given the
\* returned cursor reports no node whose Expiry was at or before the cursor
\* of the pass before it.
C22_CursorNeverMovesBackward ==
    [][last'.op = "ExpirePass" =>
          /\ sweeper'.lastCheck >= sweeper.lastCheck
          /\ last.op = "ExpirePass" =>
                \A id \in PatchIDs(last'.out.patches) :
                    nodes[id].Expiry[1] > last.arg.t
      ]_vars

(* ------------------------ the concurrent specification ---------------- *)

\* Write(hsdb.DB, fn): a write transaction waits at its boundary while
\* another caller's write transaction is open.
CanWrite(p) == \A q \in Procs \ {p} : ~txs[q].inTx

\* HSDatabase.RegisterNode with only the persist step inside Write.
RegisterNodeTxStepsSaveOnly == {"save"}

\* The steps of RegisterNode that HSDatabase.RegisterNode runs inside its
\* one Write: the free-address scan and the persist step.
RegisterNodeTxSteps == {"scan", "save"}

\* The steps of enableRoutes that HSDatabase.enableRoutes runs inside its
\* one Write.
enableRoutesTxSteps == {"validate", "check", "write"}

\* Caller p gets to a step: a step inside the write transaction opens the
\* transaction when it is the first.
Enter(p, step, steps) == step \in steps => CanWrite(p)

\* The call of p moves on; entry holds the fields the step set.
Goto(p, step, steps, entry) ==
    txs' = [txs EXCEPT ![p] = [pc |-> entry.pc, inTx |-> @.inTx \/ step \in steps]
                              @@ entry @@ @]

\* The call of p returns: its transaction, when open, is over.
Return(p) == txs' = [txs EXCEPT ![p] = NoTx]

\* HSDatabase.RegisterNode(node) is called for a device that registers for
\* the first time.
RegCall(p, mkey) ==
    /\ txs[p].pc = "idle"
    /\ mkey \in MachineKeys
    /\ ~KeyPersisted(mkey)
    /\ \A q \in Procs : txs[q].node.MachineKey # mkey
    /\ nextID + Cardinality({q \in Procs : txs[q].pc \in {"scan", "save"}})
          <= MaxID
    /\ txs' = [txs EXCEPT ![p] = [NoTx EXCEPT
                  !.pc = "scan",
                  !.node = FreshNode(mkey, 1, "laptop", FALSE, Nil),
                  !.since = nextID]]
    /\ UNCHANGED <<nodes, routes, cache, nextID, now, last, sweeper>>

\* RegisterNode, getAvailableIPs(tx, ipPrefixes): the scan reads the
\* committed node table.
RegScan(p) ==
    LET got == getAvailableIPs(nodes, IpPrefixes)
    IN  /\ txs[p].pc = "scan"
        /\ Enter(p, "scan", RegisterNodeTxSteps)
        /\ IF got.err # ""
           THEN /\ Return(p)
                /\ last' = Op("RegisterNode", got.err,
                              [NoArg EXCEPT !.node = txs[p].node], NoOut)
           ELSE /\ Goto(p, "scan", RegisterNodeTxSteps,
                        [pc |-> "save",
                         node |-> [txs[p].node EXCEPT !.IPAddresses = got.ips]])
                /\ UNCHANGED last
        /\ UNCHANGED <<nodes, routes, cache, nextID, now, sweeper>>

\* RegisterNode, tx.Save(&node): the row takes the next key and stays in the
\* transaction until the commit.
RegSave(p) ==
    /\ txs[p].pc = "save"
    /\ Enter(p, "save", RegisterNodeTxSteps)
    /\ Goto(p, "save", RegisterNodeTxSteps,
            [pc |-> "commit", node |-> [txs[p].node EXCEPT !.ID = nextID]])
    /\ nextID' = nextID + 1
    /\ UNCHANGED <<nodes, routes, cache, now, last, sweeper>>

\* The commit of the registration's write transaction.
RegCommit(p) ==
    /\ txs[p].pc = "commit"
    /\ txs[p].prefix = ""
    /\ nodes' = Save(nodes, nextID, txs[p].node).nodes
    /\ Return(p)
    /\ last' = Op("RegisterNode", "",
                  [NoArg EXCEPT !.node = [txs[p].node EXCEPT !.ID = 0,
                                                             !.IPAddresses = <<>>]],
                  [NoOut EXCEPT !.id = txs[p].node.ID])
    /\ UNCHANGED <<routes, cache, nextID, now, sweeper>>

\* HSDatabase.enableRoutes(node, prefix) is called.
EnCall(p, id, prefix) ==
    /\ txs[p].pc = "idle"
    /\ id \in DOMAIN nodes
    /\ txs' = [txs EXCEPT ![p] = [NoTx EXCEPT
                  !.pc = "validate", !.node = nodes[id], !.prefix = prefix,
                  !.since = Cardinality({r \in routes : r.Enabled}) + 1]]
    /\ UNCHANGED <<nodes, routes, cache, nextID, now, last, sweeper>>

\* enableRoutes, the first loop: the prefix is among the advertised routes.
EnValidate(p) ==
    /\ txs[p].pc = "validate"
    /\ Enter(p, "validate", enableRoutesTxSteps)
    /\ IF txs[p].prefix \notin GetAdvertisedRoutes(routes, txs[p].node.ID)
       THEN /\ Return(p)
            /\ last' = Op("enableRoutes", "ErrNodeRouteIsNotAvailable",
                          [NoArg EXCEPT !.id = txs[p].node.ID,
                                        !.strs = <<txs[p].prefix>>], NoOut)
       ELSE /\ Goto(p, "validate", enableRoutesTxSteps, [pc |-> "check"])
            /\ UNCHANGED last
    /\ UNCHANGED <<nodes, routes, cache, nextID, now, sweeper>>

\* enableRoutes, the second loop: the row is read and isUniquePrefix asked.
EnCheck(p) ==
    LET found == {r \in routes : r.NodeID = txs[p].node.ID /\ r.Prefix = txs[p].prefix}
    IN  /\ txs[p].pc = "check"
        /\ Enter(p, "check", enableRoutesTxSteps)
        /\ IF found = {}
           THEN /\ Return(p)
                /\ last' = Op("enableRoutes", "ErrRecordNotFound",
                              [NoArg EXCEPT !.id = txs[p].node.ID,
                                            !.strs = <<txs[p].prefix>>], NoOut)
           ELSE /\ Goto(p, "check", enableRoutesTxSteps,
                        [pc |-> "write",
                         unique |-> isUniquePrefix(routes, CHOOSE r \in found : TRUE)])
                /\ UNCHANGED last
        /\ UNCHANGED <<nodes, routes, cache, nextID, now, sweeper>>

\* The row enableRoutes saves, marked primary whatever isUniquePrefix said.
EnableWriteRowAlwaysPrimary(route, unique) ==
    [route EXCEPT !.Enabled = TRUE,
                  !.IsPrimary = IF ~IsExitRoute(route) THEN TRUE ELSE @]

\* The row enableRoutes saves: enabled, and primary as isUniquePrefix said
\* unless it is an exit route.
EnableWriteRow(route, unique) ==
    [route EXCEPT !.Enabled = TRUE,
                  !.IsPrimary = IF ~IsExitRoute(route) THEN unique ELSE @]

\* enableRoutes, tx.Save(&route): the row stays in the transaction until
\* the commit.
EnWrite(p) ==
    /\ txs[p].pc = "write"
    /\ Enter(p, "write", enableRoutesTxSteps)
    /\ Goto(p, "write", enableRoutesTxSteps, [pc |-> "commit"])
    /\ UNCHANGED <<nodes, routes, cache, nextID, now, last, sweeper>>

\* The commit of the route call's write transaction.
EnCommit(p) ==
    LET id  == txs[p].node.ID
        old == {r \in routes : r.NodeID = id /\ r.Prefix = txs[p].prefix}
    IN  /\ txs[p].pc = "commit"
        /\ txs[p].prefix # ""
        /\ routes' = (routes \ old) \cup
                         {EnableWriteRow(r, txs[p].unique) : r \in old}
        /\ Return(p)
        /\ last' = Op("enableRoutes", "",
                      [NoArg EXCEPT !.id = id, !.strs = <<txs[p].prefix>>], NoOut)
        /\ UNCHANGED <<nodes, cache, nextID, now, sweeper>>

\* A device's route advertisement, a write transaction of its own.
AdvertiseRouteTx(id, prefix) ==
    /\ \A q \in Procs : ~txs[q].inTx
    /\ AdvertiseRoute(id, prefix)

\* HSDatabase.DeleteNode, a write transaction of its own.
DeleteNodeTx(id) ==
    /\ \A q \in Procs : ~txs[q].inTx
    /\ DeleteNodeOp(id)

NextConcurrentRegister ==
    \/ \E p \in Procs, mkey \in MachineKeys : RegCall(p, mkey)
    \/ \E p \in Procs : RegScan(p)
    \/ \E p \in Procs : RegSave(p)
    \/ \E p \in Procs : RegCommit(p)
    \/ \E id \in DOMAIN nodes : DeleteNodeTx(id)

SpecConcurrentRegister == Init /\ [][NextConcurrentRegister]_vars

\* The nodes whose routes are enabled concurrently.
ConcurrentRouteNodeInputs ==
    {FreshNode(k, 1, "laptop", FALSE, Nil) : k \in NewKeys(MaxIdentityID)}

NextConcurrentRoutes ==
    \/ \E node \in ConcurrentRouteNodeInputs :
          (\A q \in Procs : ~txs[q].inTx) /\ RegisterNodeOp(node, TRUE)
    \/ \E id \in DOMAIN nodes, prefix \in Prefixes : AdvertiseRouteTx(id, prefix)
    \/ \E p \in Procs, id \in DOMAIN nodes, prefix \in Prefixes : EnCall(p, id, prefix)
    \/ \E p \in Procs : EnValidate(p)
    \/ \E p \in Procs : EnCheck(p)
    \/ \E p \in Procs : EnWrite(p)
    \/ \E p \in Procs : EnCommit(p)

SpecConcurrentRoutes == Init /\ [][NextConcurrentRoutes]_vars

\* C12: no address is held by two nodes that registered for the first time,
\* however their calls interleave.
C12_ConcurrentRegistrationsDisjoint ==
    \A a \in DOMAIN nodes, b \in DOMAIN nodes :
        a # b => IPSet(nodes[a]) \cap IPSet(nodes[b]) = {}

\* C12's case: a registration is about to commit, and another registration
\* was persisted between its call and its persist step.
C12_Witness ==
    \E p \in Procs :
        /\ txs[p].pc = "commit" /\ txs[p].prefix = ""
        /\ txs[p].node.ID > txs[p].since
        /\ txs[p].since \in DOMAIN nodes

\* C13: two primary rows of one subnet prefix belong to the same node,
\* however the enableRoutes calls interleave.
C13_ConcurrentEnableOnePrimary ==
    \A r1 \in routes, r2 \in routes :
        (r1.Prefix = r2.Prefix /\ r1.Prefix # ExitRoute
         /\ r1.IsPrimary /\ r2.IsPrimary) => r1.NodeID = r2.NodeID

\* C13's case: an enableRoutes call for a subnet prefix is about to commit,
\* another node's call for the same prefix was committed after this one was
\* made, and that node's route is primary.
C13_Witness ==
    \E p \in Procs :
        /\ txs[p].pc = "commit" /\ txs[p].prefix \notin {"", ExitRoute}
        /\ Cardinality({r \in routes : r.Enabled}) >= txs[p].since
        /\ \E r \in routes : /\ r.Prefix = txs[p].prefix
                               /\ r.NodeID # txs[p].node.ID
                               /\ r.Enabled /\ r.IsPrimary

====
